---- MODULE Spec2Model ----
(***************************************************************************)
(* Model of internal/ebpf/bpf/upf_monitor.bpf.c: the three eBPF programs   *)
(* attached to gtp5g (uplink kprobe, downlink kprobe, kfree_skb            *)
(* tracepoint), the helpers they are built from, and the BPF maps they     *)
(* share.  Every CPU runs at most one program at a time, without           *)
(* suspension; the CPUs run in parallel, so the steps of two CPUs          *)
(* interleave.  A step is one access to shared state together with the     *)
(* local computation around it.  The loader (writer of agent_config), the  *)
(* session-signaling collaborator (writer of teid_session_map) and the     *)
(* ring-buffer consumer are the environment.                               *)
(***************************************************************************)
EXTENDS Integers, Sequences, FiniteSets, TLC

\* ------------------------------------------------------------ constants
DIRECTION_UPLINK == 0
DIRECTION_DOWNLINK == 1
DROP_REASON_KERNEL == 3
\* max_entries of the maps
TRAFFIC_STATS_MAX == 2
TEID_STATS_MAX == 4096
AGENT_CONFIG_MAX == 4
\* the noise floor of tracepoint_kfree_skb
MIN_DROP_LEN == 20
\* config keys read by the programs
KEY_DETAILED_TRACING == 0
KEY_DROP_TRACING == 1
\* a null pointer, a failed lookup
NULL == -1
\* a byte of reserved ring memory that no store of the producer has reached
Uninit == -2

\* ------------------------------------------------------------ bounds
NCPU == 3           \* CPUs running programs in parallel
MaxInv == 2         \* program invocations and emit_packet_event calls started in a run
MaxCalls == 3       \* calls of update_teid_counter started in a run
MaxTunnelCalls == 5 \* the same, in the runs with one packet length per tunnel
MaxClock == 1       \* bpf_ktime_get_ns() stops advancing here
DropCap == 2        \* records the drop_events ring holds (256 KiB in the source)
PacketCap == 2      \* records the packet_events ring holds (512 KiB in the source)

CPUS == 0 .. (NCPU - 1)
Lens == {19, 20}                    \* skb->len values
SKBS == {NULL, 1}                   \* the packet handle: null or a packet
TEIDS == {7, 9}                     \* tunnel identifiers
TunnelPackets == {<<7, 20>>, <<9, 19>>}  \* (teid, len): one length per tunnel
SessionTeids == {7}                 \* tunnels the session collaborator signals
CfgValues == {0, 1}                 \* values the loader writes

VARIABLES
    traffic_stats,      \* [cpu -> [direction -> traffic_counter]]
    teid_stats,         \* [teid (partial) -> element holding a traffic_counter]
    teid_others,        \* entries teid_stats holds for tunnels outside TEIDS
    extra_elems,        \* [cpu -> the extra element of teid_stats that CPU holds]
    teid_session_map,   \* [teid (partial) -> session_info]
    agent_config,       \* [key (partial) -> value]
    drop_events,        \* [recs: every record reserved so far, cons: records consumed]
    packet_events,      \* the same, for packet_event records
    now,                \* the monotonic clock
    cpu,                \* [cpu -> frame of the program it runs or ran last]
    ninv,               \* invocations started
    teid_calls,         \* history: per TEID, the calls of update_teid_counter started
    kprobe_calls        \* history: per direction, the kprobes started with a packet

vars == <<traffic_stats, teid_stats, teid_others, extra_elems, teid_session_map, agent_config,
          drop_events, packet_events, now, cpu, ninv, teid_calls, kprobe_calls>>

maps == <<traffic_stats, teid_stats, teid_others, extra_elems, teid_session_map, agent_config,
          drop_events, packet_events>>

\* ------------------------------------------------------------ data
\* struct traffic_counter, zero-initialised (array maps start zeroed)
ZeroCounter == [packets |-> 0, bytes |-> 0, timestamp |-> 0]

\* struct session_info as the session collaborator writes it
SessionInfo(teid) == [seid |-> teid, ue_ip |-> 0, upf_ip |-> 0, created_at |-> 0]

\* the fields of struct drop_event / struct packet_event
DropEventFields ==
    {"timestamp", "teid", "src_ip", "dst_ip", "src_port", "dst_port",
     "pkt_len", "reason", "direction", "pad"}
PacketEventFields ==
    {"timestamp", "teid", "src_ip", "dst_ip", "pkt_len", "direction", "qfi", "pad"}

\* the assignments of emit_drop_event / emit_packet_event, in statement order
DropEventWrites ==
    <<"timestamp", "teid", "src_ip", "dst_ip", "pkt_len", "reason",
      "direction", "src_port", "dst_port">>
PacketEventWrites ==
    <<"timestamp", "teid", "src_ip", "dst_ip", "pkt_len", "direction", "qfi">>

\* A hash-map element: the value and the identity of the element (the memory)
\* that holds it.  The table is preallocated: an insert of a new key takes an
\* element never used before; an update of a key that has an entry fills the
\* extra element of the updating CPU, puts it in the table, and the element it
\* replaces becomes that CPU's extra element, contents and all.  A pointer a
\* lookup returned earlier still points to the replaced element.
Elem(id, counter) ==
    [elem |-> id, packets |-> counter.packets, bytes |-> counter.bytes,
     timestamp |-> counter.timestamp]

\* the extra element CPU c starts with, and the element an insert by invocation
\* id takes from the free list
ExtraElem(c) == c
FreshElem(id) == NCPU + id

\* an empty ring buffer
EmptyRing == [recs |-> <<>>, cons |-> 0]

\* the arguments of a helper call (the ones a helper does not take are 0)
NoArgs == [teid |-> 0, src_ip |-> 0, dst_ip |-> 0, pkt_len |-> 0,
           reason |-> 0, direction |-> 0, qfi |-> 0]

\* no call of update_teid_counter for a TEID yet: their number, the sum of their
\* lengths, and whether one started while another for the same TEID was running
NoCalls == [n |-> 0, bytes |-> 0, raced |-> FALSE]

\* the two slots of one CPU in traffic_stats, zeroed
NoStats == [d \in 0 .. (TRAFFIC_STATS_MAX - 1) |-> ZeroCounter]

\* a CPU that has run no program yet.  prog, id: the program and the number of
\* its invocation; skb, skblen: the packet it was invoked for; len, key, ptr,
\* tmp, new_counter, enabled, args, event: its locals; retval, path: what it
\* returned and at which return statement; entry: this CPU's slots of
\* traffic_stats as they were when the program started
IdleFrame ==
    [pc |-> "idle", prog |-> "none", id |-> 0, skb |-> NULL, skblen |-> 0,
     len |-> 0, key |-> 0, ptr |-> NULL, tmp |-> 0, new_counter |-> ZeroCounter,
     enabled |-> NULL, args |-> NoArgs, event |-> NULL, retval |-> 0,
     path |-> "none", entry |-> NoStats]

\* the three attached programs
Programs == {"kprobe_gtp5g_encap_recv", "kprobe_gtp5g_dev_xmit", "tracepoint_kfree_skb"}

\* ------------------------------------------------------------ helpers of the kernel
\* bpf_map_lookup_elem: a pointer to the value (here: the key) or NULL
bpf_map_lookup_elem(map, key) == IF key \in DOMAIN map THEN key ELSE NULL

\* bpf_ktime_get_ns: the values a read of the monotonic clock may return
bpf_ktime_get_ns == {now} \cup (IF now < MaxClock THEN {now + 1} ELSE {})

\* records of a ring that the consumer has not consumed yet
RingUsed(rb) == Len(rb.recs) - rb.cons

\* bpf_ringbuf_reserve succeeds when the ring has room for one more record
bpf_ringbuf_reserve_ok(rb, cap) == RingUsed(rb) < cap

\* the record bpf_ringbuf_reserve hands out: busy, its bytes whatever the ring
\* held.  cpu, id: the invocation that reserved it; by: per field, the
\* invocation whose store it holds (0: none)
ReservedRecord(c, id, fields) ==
    [busy |-> TRUE, cpu |-> c, id |-> id, data |-> [f \in fields |-> Uninit],
     by |-> [f \in fields |-> 0]]

\* bpf_ringbuf_submit: clears the busy bit of record i
bpf_ringbuf_submit(rb, i) == [rb EXCEPT !.recs[i].busy = FALSE]

\* mutant: the last of the stores is missing
RingPopulate_LastStoreMissing(rb, i, writes, values, id) ==
    [rb EXCEPT !.recs[i] =
        [@ EXCEPT !.data = [f \in DOMAIN @ |->
                               IF \E k \in 1 .. (Len(writes) - 1) : writes[k] = f
                               THEN values[CHOOSE k \in 1 .. Len(writes) : writes[k] = f]
                               ELSE @[f]],
                  !.by = [f \in DOMAIN @ |->
                               IF \E k \in 1 .. (Len(writes) - 1) : writes[k] = f
                               THEN id ELSE @[f]]]]

\* the stores of invocation id to the fields `writes` of the reserved record i,
\* in statement order; values[k] is what the code assigns to field writes[k].
\* The record is busy and no one but its producer reads or writes it before the
\* submit.
RingPopulate(rb, i, writes, values, id) ==
    [rb EXCEPT !.recs[i] =
        [@ EXCEPT !.data = [f \in DOMAIN @ |->
                               IF \E k \in 1 .. Len(writes) : writes[k] = f
                               THEN values[CHOOSE k \in 1 .. Len(writes) : writes[k] = f]
                               ELSE @[f]],
                  !.by = [f \in DOMAIN @ |->
                               IF \E k \in 1 .. Len(writes) : writes[k] = f
                               THEN id ELSE @[f]]]]

\* mutant: a new key is inserted whatever the table holds
bpf_map_update_elem_any_Unbounded(map, key, value, max) ==
    [k \in DOMAIN map \cup {key} |-> IF k = key THEN value ELSE map[k]]

\* bpf_map_update_elem(&teid_stats, key, value, BPF_ANY): create or replace,
\* -E2BIG (map unchanged) for a new key in a full table; max: the entries the
\* table has room for
bpf_map_update_elem_any(map, key, value, max) ==
    IF key \in DOMAIN map
    THEN [map EXCEPT ![key] = value]
    ELSE IF Cardinality(DOMAIN map) >= max
         THEN map
         ELSE [k \in DOMAIN map \cup {key} |-> IF k = key THEN value ELSE map[k]]

\* ------------------------------------------------------------ pure parts of the code
\* __u32 *enabled = bpf_map_lookup_elem(&agent_config, &key), dereferenced:
\* the value read, NULL when the lookup misses
ConfigRead(cfg, key) ==
    LET enabled == bpf_map_lookup_elem(cfg, key)
    IN  IF enabled = NULL THEN NULL ELSE cfg[enabled]

\* mutant: the test of the value is missing, `if (!enabled) return 0;`
DropTracingEnabled_NoValueTest(enabled) == ~(enabled = NULL)

\* mutant: a missing entry counts as enabled, `if (enabled && *enabled == 0) return 0;`
DropTracingEnabled_FailOpen(enabled) == ~(enabled # NULL /\ enabled = 0)

\* tracepoint_kfree_skb goes on past `if (!enabled || *enabled == 0) return 0;`
DropTracingEnabled(enabled) == ~(enabled = NULL \/ enabled = 0)

\* mutant: the test of the value is missing, `if (!enabled) return;`
DetailedTracingEnabled_NoValueTest(enabled) == ~(enabled = NULL)

\* emit_packet_event goes on past `if (!enabled || *enabled == 0) return;`
DetailedTracingEnabled(enabled) == ~(enabled = NULL \/ enabled = 0)

\* mutant: the null check is missing
SkbIsNull_Never(skb) == FALSE

\* `if (!skb)`
SkbIsNull(skb) == skb = NULL

\* mutant: `counter->bytes = len`
CounterAddBytes_Assign(counter, len) == [counter EXCEPT !.bytes = len]

\* counter->bytes += len
CounterAddBytes(counter, len) == [counter EXCEPT !.bytes = @ + len]

\* counter->timestamp = bpf_ktime_get_ns()
CounterSetTimestamp(counter, t) == [counter EXCEPT !.timestamp = t]

\* mutant: `counter->packets = 1`
CounterIncPackets_Assign(counter) == [counter EXCEPT !.packets = 1]

\* counter->packets++
CounterIncPackets(counter) == [counter EXCEPT !.packets = @ + 1]

\* mutant: the counter is overwritten with a fresh one, as on the insert path
\* of update_teid_counter
UpdateCounter_Fresh(counter, len, t) == [packets |-> 1, bytes |-> len, timestamp |-> t]

\* the three statements under `if (counter)` of update_traffic_counter
UpdateCounter(counter, len, t) ==
    CounterSetTimestamp(CounterAddBytes(CounterIncPackets(counter), len), t)

\* mutant: `len <= 20`
BelowNoiseFloor_Inclusive(len) == len <= MIN_DROP_LEN

\* the length test of tracepoint_kfree_skb: `len < 20`
BelowNoiseFloor(len) == len < MIN_DROP_LEN

\* the call emit_drop_event(0, 0, 0, len, DROP_REASON_KERNEL, 0)
KfreeDropArgs(len) ==
    [NoArgs EXCEPT !.teid = 0, !.src_ip = 0, !.dst_ip = 0, !.pkt_len = len,
                   !.reason = DROP_REASON_KERNEL, !.direction = 0]

\* the value emit_drop_event stores in field f
DropEventValue(f, args, t) ==
    CASE f = "timestamp" -> t
      [] f \in {"src_port", "dst_port"} -> 0
      [] OTHER -> args[f]

\* the value emit_packet_event stores in field f
PacketEventValue(f, args, t) ==
    CASE f = "timestamp" -> t
      [] OTHER -> args[f]

\* mutant: two records are reserved for one event
RingReserve_Twice(rb, cap, rec) ==
    IF bpf_ringbuf_reserve_ok(rb, cap)
    THEN [rb EXCEPT !.recs = Append(Append(@, rec), rec)]
    ELSE rb

\* mutant: with no room the oldest record not yet consumed is overwritten
RingReserve_Overwrite(rb, cap, rec) ==
    IF bpf_ringbuf_reserve_ok(rb, cap)
    THEN [rb EXCEPT !.recs = Append(@, rec)]
    ELSE [rb EXCEPT !.recs[rb.cons + 1] = rec]

\* the ring after `event = bpf_ringbuf_reserve(...); if (!event) return;`: the
\* record appended, or, with no room, the ring as it was
RingReserve(rb, cap, rec) ==
    IF bpf_ringbuf_reserve_ok(rb, cap) THEN [rb EXCEPT !.recs = Append(@, rec)] ELSE rb

\* mutant: `new_counter.packets = 1` is missing, packets stays 0 of `= {0}`
NewTeidCounter_NoPackets(len, t) == [packets |-> 0, bytes |-> len, timestamp |-> t]

\* new_counter of update_teid_counter: {0}, then packets = 1, bytes = len, timestamp
NewTeidCounter(len, t) == [packets |-> 1, bytes |-> len, timestamp |-> t]

\* mutant: the drop program reports the packets it filters out, `return -1`
ProgramReturn_NoiseError(prog, path) == IF path = "noise" THEN -1 ELSE 0

\* the value each `return` of a program returns; path names the return statement
ProgramReturn(prog, path) == 0

\* the frame of a program that has returned (the CPU is free again)
ReturnFrame(f, path) ==
    [f EXCEPT !.pc = "ret", !.path = path, !.retval = ProgramReturn(f.prog, path)]

\* the frame of a helper that was called directly and has returned (void)
HelperDone(f, path) == [f EXCEPT !.pc = "ret", !.path = path]

\* ------------------------------------------------------------ state at load
\* array maps are created with every slot present and zero; hash maps and rings empty
Init ==
    /\ traffic_stats = [c \in CPUS |-> NoStats]
    /\ teid_stats = [k \in {} |-> ZeroCounter]
    /\ teid_others = 0
    /\ extra_elems = [c \in CPUS |-> Elem(ExtraElem(c), ZeroCounter)]
    /\ teid_session_map = [k \in {} |-> SessionInfo(k)]
    /\ agent_config = [k \in 0 .. (AGENT_CONFIG_MAX - 1) |-> 0]
    /\ drop_events = EmptyRing
    /\ packet_events = EmptyRing
    /\ now = 0
    /\ cpu = [c \in CPUS |-> IdleFrame]
    /\ ninv = 0
    /\ teid_calls = [k \in TEIDS |-> NoCalls]
    /\ kprobe_calls = [d \in 0 .. (TRAFFIC_STATS_MAX - 1) |-> NoCalls]

\* the same with a config table that holds no entry at all (every lookup misses)
InitEmptyConfig ==
    /\ traffic_stats = [c \in CPUS |-> NoStats]
    /\ teid_stats = [k \in {} |-> ZeroCounter]
    /\ teid_others = 0
    /\ extra_elems = [c \in CPUS |-> Elem(ExtraElem(c), ZeroCounter)]
    /\ teid_session_map = [k \in {} |-> SessionInfo(k)]
    /\ agent_config = [k \in {} |-> 0]
    /\ drop_events = EmptyRing
    /\ packet_events = EmptyRing
    /\ now = 0
    /\ cpu = [c \in CPUS |-> IdleFrame]
    /\ ninv = 0
    /\ teid_calls = [k \in TEIDS |-> NoCalls]
    /\ kprobe_calls = [d \in 0 .. (TRAFFIC_STATS_MAX - 1) |-> NoCalls]

\* the TEID table one entry short of max_entries, after TEID_STATS_MAX - 1
\* tunnels outside TEIDS were counted
InitTeidTableFilled ==
    /\ traffic_stats = [c \in CPUS |-> NoStats]
    /\ teid_stats = [k \in {} |-> ZeroCounter]
    /\ teid_others = TEID_STATS_MAX - 1
    /\ extra_elems = [c \in CPUS |-> Elem(ExtraElem(c), ZeroCounter)]
    /\ teid_session_map = [k \in {} |-> SessionInfo(k)]
    /\ agent_config = [k \in 0 .. (AGENT_CONFIG_MAX - 1) |-> 0]
    /\ drop_events = EmptyRing
    /\ packet_events = EmptyRing
    /\ now = 0
    /\ cpu = [c \in CPUS |-> IdleFrame]
    /\ ninv = 0
    /\ teid_calls = [k \in TEIDS |-> NoCalls]
    /\ kprobe_calls = [d \in 0 .. (TRAFFIC_STATS_MAX - 1) |-> NoCalls]

\* a DropEvent an invocation before the ones followed here published
BacklogRecord ==
    [busy |-> FALSE, cpu |-> 0, id |-> 0,
     data |-> [f \in DropEventFields |->
                  IF f = "pad" THEN Uninit
                  ELSE DropEventValue(f, KfreeDropArgs(MIN_DROP_LEN), 0)],
     by |-> [f \in DropEventFields |-> 0]]

\* the drop_events ring one record short of full: the consumer is behind
InitDropBacklog ==
    /\ traffic_stats = [c \in CPUS |-> NoStats]
    /\ teid_stats = [k \in {} |-> ZeroCounter]
    /\ teid_others = 0
    /\ extra_elems = [c \in CPUS |-> Elem(ExtraElem(c), ZeroCounter)]
    /\ teid_session_map = [k \in {} |-> SessionInfo(k)]
    /\ agent_config = [k \in 0 .. (AGENT_CONFIG_MAX - 1) |-> 0]
    /\ drop_events = [recs |-> [i \in 1 .. (DropCap - 1) |-> BacklogRecord], cons |-> 0]
    /\ packet_events = EmptyRing
    /\ now = 0
    /\ cpu = [c \in CPUS |-> IdleFrame]
    /\ ninv = 0
    /\ teid_calls = [k \in TEIDS |-> NoCalls]
    /\ kprobe_calls = [d \in 0 .. (TRAFFIC_STATS_MAX - 1) |-> NoCalls]

\* a program or helper starts on a free CPU; the frame of the one that returned
\* there before (pc "ret": its return value, its arguments) is gone
Start(c, prog, skb, l) ==
    [IdleFrame EXCEPT !.prog = prog, !.id = ninv + 1, !.skb = skb,
                      !.skblen = IF skb = NULL THEN 0 ELSE l]

\* CPU c runs no program and the next one may start there.  The CPUs are
\* interchangeable, so they are taken into use in the order of their numbers:
\* every run is, up to a renaming of the CPUs, one of these.
Free(c) ==
    /\ cpu[c].pc \in {"idle", "ret"}
    /\ \A d \in CPUS : d < c => cpu[d].pc # "idle"

\* ------------------------------------------------------------ the two kprobes
\* the direction a kprobe is attached for: gtp5g_encap_recv receives uplink
\* packets, gtp5g_dev_xmit sends downlink packets
KprobeDirection(prog) ==
    IF prog = "kprobe_gtp5g_encap_recv" THEN DIRECTION_UPLINK ELSE DIRECTION_DOWNLINK

\* the kprobe body: the null check, the read of skb->len, and of
\* update_traffic_counter the lookup of this CPU's slot
KprobeEntry(c, prog, direction) ==
    /\ Free(c)
    /\ ninv < MaxInv
    /\ \E skb \in SKBS, l \in Lens :
         LET f == [Start(c, prog, skb, l) EXCEPT !.entry = traffic_stats[c]]
             counter == bpf_map_lookup_elem(traffic_stats[c], direction)
         IN  /\ cpu' = [cpu EXCEPT ![c] =
                 IF SkbIsNull(skb)
                 THEN ReturnFrame(f, "null")
                 ELSE IF counter = NULL
                 THEN ReturnFrame([f EXCEPT !.len = f.skblen, !.key = direction], "miss")
                 ELSE [f EXCEPT !.pc = "utc_update", !.len = f.skblen, !.key = direction,
                                !.ptr = counter]]
             /\ kprobe_calls' =
                    IF skb = NULL THEN kprobe_calls
                    ELSE [kprobe_calls EXCEPT ![KprobeDirection(prog)] =
                             [@ EXCEPT !.n = @ + 1, !.bytes = @ + l]]
    /\ ninv' = ninv + 1
    /\ UNCHANGED <<maps, now, teid_calls>>

\* SEC("kprobe/gtp5g_encap_recv")
kprobe_gtp5g_encap_recv(c) == KprobeEntry(c, "kprobe_gtp5g_encap_recv", DIRECTION_UPLINK)

\* mutant: the downlink kprobe passes the uplink direction
kprobe_gtp5g_dev_xmit_Uplink(c) == KprobeEntry(c, "kprobe_gtp5g_dev_xmit", DIRECTION_UPLINK)

\* SEC("kprobe/gtp5g_dev_xmit")
kprobe_gtp5g_dev_xmit(c) == KprobeEntry(c, "kprobe_gtp5g_dev_xmit", DIRECTION_DOWNLINK)

\* counter->packets++; counter->bytes += len; counter->timestamp = bpf_ktime_get_ns();
\* and the program's `return 0`.  The slot is this CPU's own, and a CPU runs one
\* program at a time, so no step of another CPU falls between the statements.
update_traffic_counter(c) ==
    /\ cpu[c].pc = "utc_update"
    /\ \E t \in bpf_ktime_get_ns :
         /\ now' = t
         /\ traffic_stats' = [traffic_stats EXCEPT ![c][cpu[c].ptr] =
                                  UpdateCounter(@, cpu[c].len, t)]
    /\ cpu' = [cpu EXCEPT ![c] = ReturnFrame(cpu[c], "counted")]
    /\ UNCHANGED <<teid_stats, teid_others, extra_elems, teid_session_map, agent_config, drop_events,
                   packet_events, ninv, teid_calls, kprobe_calls>>

\* ------------------------------------------------------------ tracepoint_kfree_skb
\* mutant: the flag is cached, a CPU that ran the program before goes by the
\* value it read then and looks the flag up only the first time
tracepoint_kfree_skb_CachedFlag(c) ==
    /\ Free(c)
    /\ ninv < MaxInv
    /\ \E skb \in SKBS, l \in Lens :
         LET cached == cpu[c].pc = "ret" /\ cpu[c].prog = "tracepoint_kfree_skb"
             f == [Start(c, "tracepoint_kfree_skb", skb, l) EXCEPT
                       !.enabled = IF cached THEN cpu[c].enabled
                                   ELSE ConfigRead(agent_config, KEY_DROP_TRACING)]
         IN  cpu' = [cpu EXCEPT ![c] =
                 IF ~DropTracingEnabled(f.enabled)
                 THEN ReturnFrame(f, "disabled")
                 ELSE IF SkbIsNull(skb)
                 THEN ReturnFrame(f, "null")
                 ELSE IF BelowNoiseFloor(f.skblen)
                 THEN ReturnFrame([f EXCEPT !.len = f.skblen], "noise")
                 ELSE [f EXCEPT !.pc = "ede_reserve", !.len = f.skblen,
                                !.args = KfreeDropArgs(f.skblen)]]
    /\ ninv' = ninv + 1
    /\ UNCHANGED <<maps, now, teid_calls, kprobe_calls>>

\* SEC("tracepoint/skb/kfree_skb"): the config check, the null check, the length
\* test, up to the call of emit_drop_event
tracepoint_kfree_skb(c) ==
    /\ Free(c)
    /\ ninv < MaxInv
    /\ \E skb \in SKBS, l \in Lens :
         LET f == [Start(c, "tracepoint_kfree_skb", skb, l) EXCEPT
                       !.enabled = ConfigRead(agent_config, KEY_DROP_TRACING)]
         IN  cpu' = [cpu EXCEPT ![c] =
                 IF ~DropTracingEnabled(f.enabled)
                 THEN ReturnFrame(f, "disabled")
                 ELSE IF SkbIsNull(skb)
                 THEN ReturnFrame(f, "null")
                 ELSE IF BelowNoiseFloor(f.skblen)
                 THEN ReturnFrame([f EXCEPT !.len = f.skblen], "noise")
                 ELSE [f EXCEPT !.pc = "ede_reserve", !.len = f.skblen,
                                !.args = KfreeDropArgs(f.skblen)]]
    /\ ninv' = ninv + 1
    /\ UNCHANGED <<maps, now, teid_calls, kprobe_calls>>

\* ------------------------------------------------------------ emit_drop_event
\* event = bpf_ringbuf_reserve(&drop_events, sizeof(*event), 0); if (!event) return;
ede_reserve(c) ==
    /\ cpu[c].pc = "ede_reserve"
    /\ drop_events' = RingReserve(drop_events, DropCap,
                                  ReservedRecord(c, cpu[c].id, DropEventFields))
    /\ cpu' = [cpu EXCEPT ![c] =
           IF bpf_ringbuf_reserve_ok(drop_events, DropCap)
           THEN [cpu[c] EXCEPT !.pc = "ede_populate", !.event = Len(drop_events.recs) + 1]
           ELSE ReturnFrame(cpu[c], "full")]
    /\ UNCHANGED <<traffic_stats, teid_stats, teid_others, extra_elems, teid_session_map, agent_config,
                   packet_events, now, ninv, teid_calls, kprobe_calls>>

\* event->timestamp = bpf_ktime_get_ns(); event->teid = teid; ... event->dst_port = 0;
ede_populate(c) ==
    /\ cpu[c].pc = "ede_populate"
    /\ \E t \in bpf_ktime_get_ns :
         LET values == [k \in 1 .. Len(DropEventWrites) |->
                           DropEventValue(DropEventWrites[k], cpu[c].args, t)]
         IN  /\ now' = t
             /\ drop_events' = RingPopulate(drop_events, cpu[c].event,
                                            DropEventWrites, values, cpu[c].id)
    /\ cpu' = [cpu EXCEPT ![c].pc = "ede_submit"]
    /\ UNCHANGED <<traffic_stats, teid_stats, teid_others, extra_elems, teid_session_map, agent_config,
                   packet_events, ninv, teid_calls, kprobe_calls>>

\* mutant: tracing is one-shot, the program clears the flag after its event
ede_submit_ClearsFlag(c) ==
    /\ cpu[c].pc = "ede_submit"
    /\ drop_events' = bpf_ringbuf_submit(drop_events, cpu[c].event)
    /\ agent_config' = [agent_config EXCEPT ![KEY_DROP_TRACING] = 0]
    /\ cpu' = [cpu EXCEPT ![c] = ReturnFrame(cpu[c], "emitted")]
    /\ UNCHANGED <<traffic_stats, teid_stats, teid_others, extra_elems, teid_session_map,
                   packet_events, now, ninv, teid_calls, kprobe_calls>>

\* bpf_ringbuf_submit(event, 0); and the program's `return 0`
ede_submit(c) ==
    /\ cpu[c].pc = "ede_submit"
    /\ drop_events' = bpf_ringbuf_submit(drop_events, cpu[c].event)
    /\ cpu' = [cpu EXCEPT ![c] = ReturnFrame(cpu[c], "emitted")]
    /\ UNCHANGED <<traffic_stats, teid_stats, teid_others, extra_elems, teid_session_map, agent_config,
                   packet_events, now, ninv, teid_calls, kprobe_calls>>

\* ------------------------------------------------------------ emit_packet_event
\* the arguments emit_packet_event is called with
PacketArgs ==
    {[NoArgs EXCEPT !.teid = 7, !.src_ip = 10, !.dst_ip = 11, !.pkt_len = 20,
                    !.direction = DIRECTION_DOWNLINK, !.qfi = 9]}

\* a call of emit_packet_event (no program calls it): the config check
call_emit_packet_event(c) ==
    /\ Free(c)
    /\ ninv < MaxInv
    /\ \E a \in PacketArgs :
         LET f == [Start(c, "emit_packet_event", NULL, 0) EXCEPT !.args = a,
                       !.enabled = ConfigRead(agent_config, KEY_DETAILED_TRACING)]
         IN  cpu' = [cpu EXCEPT ![c] =
                 IF ~DetailedTracingEnabled(f.enabled)
                 THEN HelperDone(f, "disabled")
                 ELSE [f EXCEPT !.pc = "epe_reserve"]]
    /\ ninv' = ninv + 1
    /\ UNCHANGED <<maps, now, teid_calls, kprobe_calls>>

\* event = bpf_ringbuf_reserve(&packet_events, sizeof(*event), 0); if (!event) return;
epe_reserve(c) ==
    /\ cpu[c].pc = "epe_reserve"
    /\ packet_events' = RingReserve(packet_events, PacketCap,
                                    ReservedRecord(c, cpu[c].id, PacketEventFields))
    /\ cpu' = [cpu EXCEPT ![c] =
           IF bpf_ringbuf_reserve_ok(packet_events, PacketCap)
           THEN [cpu[c] EXCEPT !.pc = "epe_populate", !.event = Len(packet_events.recs) + 1]
           ELSE HelperDone(cpu[c], "full")]
    /\ UNCHANGED <<traffic_stats, teid_stats, teid_others, extra_elems, teid_session_map, agent_config,
                   drop_events, now, ninv, teid_calls, kprobe_calls>>

\* event->timestamp = bpf_ktime_get_ns(); event->teid = teid; ... event->qfi = qfi;
epe_populate(c) ==
    /\ cpu[c].pc = "epe_populate"
    /\ \E t \in bpf_ktime_get_ns :
         LET values == [k \in 1 .. Len(PacketEventWrites) |->
                           PacketEventValue(PacketEventWrites[k], cpu[c].args, t)]
         IN  /\ now' = t
             /\ packet_events' = RingPopulate(packet_events, cpu[c].event,
                                              PacketEventWrites, values, cpu[c].id)
    /\ cpu' = [cpu EXCEPT ![c].pc = "epe_submit"]
    /\ UNCHANGED <<traffic_stats, teid_stats, teid_others, extra_elems, teid_session_map, agent_config,
                   drop_events, ninv, teid_calls, kprobe_calls>>

\* bpf_ringbuf_submit(event, 0);
epe_submit(c) ==
    /\ cpu[c].pc = "epe_submit"
    /\ packet_events' = bpf_ringbuf_submit(packet_events, cpu[c].event)
    /\ cpu' = [cpu EXCEPT ![c] = HelperDone(cpu[c], "emitted")]
    /\ UNCHANGED <<traffic_stats, teid_stats, teid_others, extra_elems, teid_session_map, agent_config,
                   drop_events, now, ninv, teid_calls, kprobe_calls>>

\* ------------------------------------------------------------ update_teid_counter
\* the keys whose entry is element elem (one at most)
ElemKeys(map, elem) == {k \in DOMAIN map : map[k].elem = elem}

\* the pointer elem points to an element the table holds
Live(map, elem) == ElemKeys(map, elem) # {}

\* a load through the pointer: from the table's element, or from the extra
\* element of the CPU that holds it
TeidLoad(map, extra, elem, field) ==
    IF Live(map, elem)
    THEN map[CHOOSE k \in ElemKeys(map, elem) : TRUE][field]
    ELSE extra[CHOOSE c \in DOMAIN extra : extra[c].elem = elem][field]

\* a store through the pointer: the table after it
TeidStore(map, elem, field, v) ==
    IF Live(map, elem)
    THEN [map EXCEPT ![CHOOSE k \in ElemKeys(map, elem) : TRUE][field] = v]
    ELSE map

\* a store through the pointer: the extra elements after it
ExtraStore(map, extra, elem, field, v) ==
    IF Live(map, elem)
    THEN extra
    ELSE [c \in DOMAIN extra |->
             IF extra[c].elem = elem THEN [extra[c] EXCEPT ![field] = v] ELSE extra[c]]

\* CPU d is inside update_teid_counter(teid, ...)
InTeidCall(d, teid) ==
    cpu[d].prog = "update_teid_counter" /\ cpu[d].pc # "ret" /\ cpu[d].key = teid

\* a call of update_teid_counter(teid, len) (no program calls it), its
\* arguments among `inputs`, while fewer than `limit` calls have started: the
\* lookup, and on a miss the local new_counter
TeidCall(c, inputs, limit) ==
    /\ Free(c)
    /\ ninv < limit
    /\ \E in \in inputs, t \in bpf_ktime_get_ns :
         LET teid == in[1]
             l == in[2]
             f == [Start(c, "update_teid_counter", NULL, 0) EXCEPT !.key = teid, !.len = l]
             counter == bpf_map_lookup_elem(teid_stats, teid)
         IN  /\ IF counter # NULL
                THEN /\ cpu' = [cpu EXCEPT ![c] =
                            [f EXCEPT !.pc = "tc_load_packets",
                                      !.ptr = teid_stats[teid].elem]]
                     /\ now' = now
                ELSE /\ cpu' = [cpu EXCEPT ![c] =
                            [f EXCEPT !.pc = "tc_update",
                                      !.new_counter = NewTeidCounter(l, t)]]
                     /\ now' = t
             /\ teid_calls' = [teid_calls EXCEPT ![teid] =
                    [n |-> @.n + 1, bytes |-> @.bytes + l,
                     raced |-> @.raced \/ \E d \in CPUS \ {c} : InTeidCall(d, teid)]]
    /\ ninv' = ninv + 1
    /\ UNCHANGED <<maps, kprobe_calls>>

\* a call with any tunnel and any length
call_update_teid_counter(c) == TeidCall(c, TEIDS \X Lens, MaxCalls)

\* a call for a tunnel with the length of that tunnel's packets
call_update_teid_counter_tunnel(c) == TeidCall(c, TunnelPackets, MaxTunnelCalls)

\* counter->packets++ : the load
tc_load_packets(c) ==
    /\ cpu[c].pc = "tc_load_packets"
    /\ cpu' = [cpu EXCEPT ![c] =
           [cpu[c] EXCEPT !.pc = "tc_store_packets",
                          !.tmp = TeidLoad(teid_stats, extra_elems, cpu[c].ptr, "packets")]]
    /\ UNCHANGED <<maps, now, ninv, teid_calls, kprobe_calls>>

\* counter->packets++ : the store
tc_store_packets(c) ==
    /\ cpu[c].pc = "tc_store_packets"
    /\ teid_stats' = TeidStore(teid_stats, cpu[c].ptr, "packets", cpu[c].tmp + 1)
    /\ extra_elems' = ExtraStore(teid_stats, extra_elems, cpu[c].ptr, "packets",
                                 cpu[c].tmp + 1)
    /\ cpu' = [cpu EXCEPT ![c] = [cpu[c] EXCEPT !.pc = "tc_load_bytes", !.tmp = 0]]
    /\ UNCHANGED <<traffic_stats, teid_others, teid_session_map, agent_config, drop_events,
                   packet_events, now, ninv, teid_calls, kprobe_calls>>

\* counter->bytes += len : the load
tc_load_bytes(c) ==
    /\ cpu[c].pc = "tc_load_bytes"
    /\ cpu' = [cpu EXCEPT ![c] =
           [cpu[c] EXCEPT !.pc = "tc_store_bytes",
                          !.tmp = TeidLoad(teid_stats, extra_elems, cpu[c].ptr, "bytes")]]
    /\ UNCHANGED <<maps, now, ninv, teid_calls, kprobe_calls>>

\* counter->bytes += len : the store
tc_store_bytes(c) ==
    /\ cpu[c].pc = "tc_store_bytes"
    /\ teid_stats' = TeidStore(teid_stats, cpu[c].ptr, "bytes", cpu[c].tmp + cpu[c].len)
    /\ extra_elems' = ExtraStore(teid_stats, extra_elems, cpu[c].ptr, "bytes",
                                 cpu[c].tmp + cpu[c].len)
    /\ cpu' = [cpu EXCEPT ![c] = [cpu[c] EXCEPT !.pc = "tc_timestamp", !.tmp = 0]]
    /\ UNCHANGED <<traffic_stats, teid_others, teid_session_map, agent_config, drop_events,
                   packet_events, now, ninv, teid_calls, kprobe_calls>>

\* counter->timestamp = bpf_ktime_get_ns();
tc_timestamp(c) ==
    /\ cpu[c].pc = "tc_timestamp"
    /\ \E t \in bpf_ktime_get_ns :
         /\ now' = t
         /\ teid_stats' = TeidStore(teid_stats, cpu[c].ptr, "timestamp", t)
         /\ extra_elems' = ExtraStore(teid_stats, extra_elems, cpu[c].ptr, "timestamp", t)
    /\ cpu' = [cpu EXCEPT ![c] = HelperDone(cpu[c], "hit")]
    /\ UNCHANGED <<traffic_stats, teid_others, teid_session_map, agent_config, drop_events,
                   packet_events, ninv, teid_calls, kprobe_calls>>

\* bpf_map_update_elem(&teid_stats, &teid, &new_counter, BPF_ANY);
tc_update(c) ==
    /\ cpu[c].pc = "tc_update"
    /\ LET present == cpu[c].key \in DOMAIN teid_stats
           e == IF present THEN extra_elems[c].elem ELSE FreshElem(cpu[c].id)
       IN  /\ teid_stats' = bpf_map_update_elem_any(teid_stats, cpu[c].key,
                                Elem(e, cpu[c].new_counter),
                                TEID_STATS_MAX - teid_others)
           /\ extra_elems' = IF present
                             THEN [extra_elems EXCEPT ![c] = teid_stats[cpu[c].key]]
                             ELSE extra_elems
    /\ cpu' = [cpu EXCEPT ![c] = HelperDone(cpu[c], "miss")]
    /\ UNCHANGED <<traffic_stats, teid_others, teid_session_map, agent_config, drop_events,
                   packet_events, now, ninv, teid_calls, kprobe_calls>>

\* ------------------------------------------------------------ environment
\* the external loader writes the flag `key` of agent_config
loader_set_config(key) ==
    /\ \E v \in CfgValues :
         agent_config' = [k \in DOMAIN agent_config \cup {key} |->
                              IF k = key THEN v ELSE agent_config[k]]
    /\ UNCHANGED <<traffic_stats, teid_stats, teid_others, extra_elems, teid_session_map, drop_events,
                   packet_events, now, cpu, ninv, teid_calls, kprobe_calls>>

\* the session-signaling collaborator creates or deletes a session
session_write ==
    /\ \E teid \in SessionTeids :
         teid_session_map' =
             IF teid \in DOMAIN teid_session_map
             THEN [k \in DOMAIN teid_session_map \ {teid} |-> teid_session_map[k]]
             ELSE [k \in DOMAIN teid_session_map \cup {teid} |-> SessionInfo(k)]
    /\ UNCHANGED <<traffic_stats, teid_stats, teid_others, extra_elems, agent_config, drop_events,
                   packet_events, now, cpu, ninv, teid_calls, kprobe_calls>>

\* the consumer can take the next record of a ring once it is submitted
Consumable(rb) == rb.cons < Len(rb.recs) /\ ~rb.recs[rb.cons + 1].busy

\* the consumer takes the next drop_event
consume_drop_event ==
    /\ Consumable(drop_events)
    /\ drop_events' = [drop_events EXCEPT !.cons = @ + 1]
    /\ UNCHANGED <<traffic_stats, teid_stats, teid_others, extra_elems, teid_session_map, agent_config,
                   packet_events, now, cpu, ninv, teid_calls, kprobe_calls>>

\* the consumer takes the next packet_event
consume_packet_event ==
    /\ Consumable(packet_events)
    /\ packet_events' = [packet_events EXCEPT !.cons = @ + 1]
    /\ UNCHANGED <<traffic_stats, teid_stats, teid_others, extra_elems, teid_session_map, agent_config,
                   drop_events, now, cpu, ninv, teid_calls, kprobe_calls>>

\* ------------------------------------------------------------ specifications
\* The programs as attached: no program calls update_teid_counter or
\* emit_packet_event, so teid_stats and packet_events never change here.
Next ==
    \/ \E c \in CPUS : kprobe_gtp5g_encap_recv(c)
    \/ \E c \in CPUS : kprobe_gtp5g_dev_xmit(c)
    \/ \E c \in CPUS : update_traffic_counter(c)
    \/ \E c \in CPUS : tracepoint_kfree_skb(c)
    \/ \E c \in CPUS : ede_reserve(c)
    \/ \E c \in CPUS : ede_populate(c)
    \/ \E c \in CPUS : ede_submit(c)
    \/ loader_set_config(KEY_DROP_TRACING)
    \/ session_write
    \/ consume_drop_event

Spec == Init /\ [][Next]_vars

\* the same programs, started with the drop_events ring one record short of full
SpecDropBacklog == InitDropBacklog /\ [][Next]_vars

\* update_teid_counter called directly, on any CPU, with any TEID and length
NextTeid ==
    \/ \E c \in CPUS : call_update_teid_counter(c)
    \/ \E c \in CPUS : tc_load_packets(c)
    \/ \E c \in CPUS : tc_store_packets(c)
    \/ \E c \in CPUS : tc_load_bytes(c)
    \/ \E c \in CPUS : tc_store_bytes(c)
    \/ \E c \in CPUS : tc_timestamp(c)
    \/ \E c \in CPUS : tc_update(c)

SpecTeid == Init /\ [][NextTeid]_vars

\* update_teid_counter called directly, each tunnel with packets of one length
NextTeidTunnels ==
    \/ \E c \in CPUS : call_update_teid_counter_tunnel(c)
    \/ \E c \in CPUS : tc_load_packets(c)
    \/ \E c \in CPUS : tc_store_packets(c)
    \/ \E c \in CPUS : tc_load_bytes(c)
    \/ \E c \in CPUS : tc_store_bytes(c)
    \/ \E c \in CPUS : tc_timestamp(c)
    \/ \E c \in CPUS : tc_update(c)

SpecTeidTunnels == Init /\ [][NextTeidTunnels]_vars

\* the same, started with the TEID table one entry short of full
SpecTeidFilled == InitTeidTableFilled /\ [][NextTeid]_vars

\* the two gated emitters: the drop program, and emit_packet_event called directly
NextEmit ==
    \/ \E c \in CPUS : tracepoint_kfree_skb(c)
    \/ \E c \in CPUS : ede_reserve(c)
    \/ \E c \in CPUS : ede_populate(c)
    \/ \E c \in CPUS : ede_submit(c)
    \/ \E c \in CPUS : call_emit_packet_event(c)
    \/ \E c \in CPUS : epe_reserve(c)
    \/ \E c \in CPUS : epe_populate(c)
    \/ \E c \in CPUS : epe_submit(c)
    \/ loader_set_config(KEY_DETAILED_TRACING)
    \/ loader_set_config(KEY_DROP_TRACING)
    \/ consume_drop_event
    \/ consume_packet_event

SpecEmit == Init /\ [][NextEmit]_vars

\* the same, started with a config table in which every lookup misses
SpecEmptyConfig == InitEmptyConfig /\ [][NextEmit]_vars

\* ------------------------------------------------------------ properties
\* the records of a ring that invocation id reserved
RecordsOf(rb, id) == {i \in 1 .. Len(rb.recs) : rb.recs[i].id = id}

\* this step starts program or helper prog on CPU c
Starts(c, prog) == ninv' = ninv + 1 /\ cpu'[c].id = ninv' /\ cpu'[c].prog = prog

\* C1: when a kprobe has returned for a non-null packet of length L on CPU c,
\* the slot of its direction (uplink for gtp5g_encap_recv, downlink for
\* gtp5g_dev_xmit) on CPU c holds 1 packet and L bytes more than when it started
C1_CounterAdvances ==
    \A c \in CPUS :
        (/\ cpu[c].pc = "ret"
         /\ cpu[c].prog \in {"kprobe_gtp5g_encap_recv", "kprobe_gtp5g_dev_xmit"}
         /\ cpu[c].skb # NULL)
        => LET d == KprobeDirection(cpu[c].prog)
           IN  /\ traffic_stats[c][d].packets = cpu[c].entry[d].packets + 1
               /\ traffic_stats[c][d].bytes = cpu[c].entry[d].bytes + cpu[c].skblen

\* C1 witness: the second uplink packet on a CPU has been counted, 19 + 20 bytes
C1_Witness ==
    \E c \in CPUS :
        /\ cpu[c].pc = "ret" /\ cpu[c].prog = "kprobe_gtp5g_encap_recv"
        /\ cpu[c].skb # NULL /\ cpu[c].skblen = 20
        /\ cpu[c].entry[DIRECTION_UPLINK].packets = 1
        /\ traffic_stats[c][DIRECTION_UPLINK].packets = 2
        /\ traffic_stats[c][DIRECTION_UPLINK].bytes = 39

\* C2: a drop program that starts while config key 1 holds 0 returns in that
\* very step and leaves the drop-event channel exactly as it was, whatever the
\* packet, on every CPU and however many invocations ran before
C2_DisabledPublishesNothing ==
    [][\A c \in CPUS :
          (/\ Starts(c, "tracepoint_kfree_skb")
           /\ KEY_DROP_TRACING \in DOMAIN agent_config
           /\ agent_config[KEY_DROP_TRACING] = 0)
          => (cpu'[c].pc = "ret" /\ drop_events' = drop_events)]_vars

\* C2 witness: with a record published earlier, a drop program read the flag as
\* 0 for a packet of 20 bytes and returned; the channel holds that one record
C2_Witness ==
    \E c \in CPUS :
        /\ cpu[c].pc = "ret" /\ cpu[c].prog = "tracepoint_kfree_skb"
        /\ cpu[c].enabled = 0 /\ cpu[c].skb # NULL /\ cpu[c].skblen = 20
        /\ Len(drop_events.recs) = 1
        /\ RecordsOf(drop_events, cpu[c].id) = {}

\* the DropEvent tracepoint_kfree_skb publishes for a packet of length len
IsKernelDropEvent(rec, len) ==
    /\ ~rec.busy
    /\ rec.data.pkt_len = len
    /\ rec.data.reason = DROP_REASON_KERNEL
    /\ rec.data.direction = 0
    /\ rec.data.teid = 0
    /\ rec.data.src_ip = 0
    /\ rec.data.dst_ip = 0
    /\ rec.data.src_port = 0
    /\ rec.data.dst_port = 0

\* C3: a drop program that read the flag as non-zero and has returned for a
\* non-null packet has published nothing if the length is below 20, and
\* otherwise, unless the reservation failed for lack of space, exactly one
\* DropEvent: pkt_len the length, reason 3, direction, teid, addresses, ports 0
C3_FloorAndFields ==
    \A c \in CPUS :
        (/\ cpu[c].pc = "ret" /\ cpu[c].prog = "tracepoint_kfree_skb"
         /\ cpu[c].enabled \notin {NULL, 0}
         /\ cpu[c].skb # NULL)
        => IF cpu[c].skblen < 20
           THEN RecordsOf(drop_events, cpu[c].id) = {}
           ELSE \/ cpu[c].path = "full"
                \/ \E i \in 1 .. Len(drop_events.recs) :
                      /\ RecordsOf(drop_events, cpu[c].id) = {i}
                      /\ IsKernelDropEvent(drop_events.recs[i], cpu[c].skblen)

\* C3 witness: with the flag on, one CPU returned for a packet of 19 bytes and
\* another for one of 20 bytes; the channel holds the one record of the latter
C3_Witness ==
    \E c, d \in CPUS :
        /\ cpu[c].pc = "ret" /\ cpu[c].prog = "tracepoint_kfree_skb"
        /\ cpu[c].enabled = 1 /\ cpu[c].skb # NULL /\ cpu[c].skblen = 19
        /\ cpu[d].pc = "ret" /\ cpu[d].prog = "tracepoint_kfree_skb"
        /\ cpu[d].enabled = 1 /\ cpu[d].skb # NULL /\ cpu[d].skblen = 20
        /\ Len(drop_events.recs) = 1
        /\ drop_events.recs[1].id = cpu[d].id
        /\ IsKernelDropEvent(drop_events.recs[1], 20)

\* no call of update_teid_counter for teid is under way
TeidQuiet(teid) == \A c \in CPUS : ~InTeidCall(c, teid)

\* C4: when the calls of update_teid_counter for a TEID ran one after another,
\* after the first, for length L, the entry holds packets 1 and bytes L, and
\* after the second, for length L2, packets 2 and bytes L + L2
C4_TeidCreateThenIncrement ==
    \A teid \in TEIDS :
        (/\ TeidQuiet(teid)
         /\ ~teid_calls[teid].raced
         /\ teid_calls[teid].n \in {1, 2})
        => /\ teid \in DOMAIN teid_stats
           /\ teid_stats[teid].packets = teid_calls[teid].n
           /\ teid_stats[teid].bytes = teid_calls[teid].bytes

\* C4 witness: two calls for one TEID, of 19 and 20 bytes, ran one after another
C4_Witness ==
    \E teid \in TEIDS :
        /\ TeidQuiet(teid)
        /\ ~teid_calls[teid].raced
        /\ teid_calls[teid].n = 2
        /\ teid \in DOMAIN teid_stats
        /\ teid_stats[teid].packets = 2
        /\ teid_stats[teid].bytes = 39

\* C5: when update_teid_counter inserts for a TEID that already has an entry
\* (another CPU inserted since this call's lookup missed), the existing entry
\* stays as it is and this call's record is discarded
C5_FirstInsertStays ==
    [][\A c \in CPUS :
          (/\ cpu[c].pc = "tc_update"
           /\ cpu'[c].pc = "ret"
           /\ cpu[c].key \in DOMAIN teid_stats)
          => LET old == teid_stats[cpu[c].key]
                 new == teid_stats'[cpu[c].key]
             IN  /\ new.packets = old.packets
                 /\ new.bytes = old.bytes
                 /\ new.timestamp = old.timestamp]_vars

\* C6: when a drop program asks for a record while the drop-event channel has
\* no room, the attempt ends the invocation: the channel stays as it is,
\* nothing is published or held, and the program returns 0
C6_FullChannelDiscards ==
    [][\A c \in CPUS :
          (/\ cpu[c].pc = "ede_reserve"
           /\ cpu'[c].pc # "ede_reserve"
           /\ RingUsed(drop_events) >= DropCap)
          => /\ drop_events' = drop_events
             /\ cpu'[c].pc = "ret"
             /\ cpu'[c].retval = 0
             /\ RecordsOf(drop_events', cpu[c].id) = {}]_vars

\* C6 witness: a drop program returned at the failed reservation; the channel
\* is full of records other invocations published, none consumed
C6_Witness ==
    \E c \in CPUS :
        /\ cpu[c].pc = "ret" /\ cpu[c].prog = "tracepoint_kfree_skb"
        /\ cpu[c].path = "full" /\ cpu[c].retval = 0
        /\ Len(drop_events.recs) = DropCap
        /\ drop_events.cons = 0
        /\ RecordsOf(drop_events, cpu[c].id) = {}

C8_NullPacketNoEffect ==
    [][\A c \in CPUS :
          (/\ ninv' = ninv + 1 /\ cpu'[c].id = ninv'
           /\ cpu'[c].prog \in Programs
           /\ cpu'[c].skb = NULL)
          => (cpu'[c].pc = "ret" /\ maps' = maps)]_vars

\* C8 witness: a drop program with the flag on and a kprobe both returned for
\* a null handle; all counters are zero and the drop-event channel is empty
C8_Witness ==
    \E c, d \in CPUS :
        /\ cpu[c].pc = "ret" /\ cpu[c].prog = "tracepoint_kfree_skb"
        /\ cpu[c].skb = NULL /\ cpu[c].enabled = 1 /\ cpu[c].path = "null"
        /\ cpu[d].pc = "ret" /\ cpu[d].prog = "kprobe_gtp5g_encap_recv"
        /\ cpu[d].skb = NULL /\ cpu[d].path = "null"
        /\ traffic_stats = [e \in CPUS |-> NoStats]
        /\ drop_events = EmptyRing

\* C9: a call of emit_packet_event that starts while config key 0 holds 0
\* returns in that very step and leaves the packet-event channel as it was
C9_DetailedOffPublishesNothing ==
    [][\A c \in CPUS :
          (/\ Starts(c, "emit_packet_event")
           /\ KEY_DETAILED_TRACING \in DOMAIN agent_config
           /\ agent_config[KEY_DETAILED_TRACING] = 0)
          => (cpu'[c].pc = "ret" /\ packet_events' = packet_events)]_vars

\* C9 witness: with a record published earlier, a call read the flag as 0 and
\* returned; the channel holds that one record
C9_Witness ==
    \E c \in CPUS :
        /\ cpu[c].pc = "ret" /\ cpu[c].prog = "emit_packet_event"
        /\ cpu[c].enabled = 0 /\ cpu[c].path = "disabled"
        /\ Len(packet_events.recs) = 1
        /\ RecordsOf(packet_events, cpu[c].id) = {}

\* C10: a drop program that starts while config key 1 has no entry, and a call
\* of emit_packet_event that starts while key 0 has no entry, return in that
\* very step at the same return as for a zero entry and leave their channel
\* as it was
C10_AbsentKeyIsDisabled ==
    [][\A c \in CPUS :
          /\ (Starts(c, "tracepoint_kfree_skb")
              /\ KEY_DROP_TRACING \notin DOMAIN agent_config)
             => /\ cpu'[c].pc = "ret" /\ cpu'[c].path = "disabled"
                /\ drop_events' = drop_events
          /\ (Starts(c, "emit_packet_event")
              /\ KEY_DETAILED_TRACING \notin DOMAIN agent_config)
             => /\ cpu'[c].pc = "ret" /\ cpu'[c].path = "disabled"
                /\ packet_events' = packet_events]_vars

\* C10 witness: with no entry in agent_config, a drop program for a packet of
\* 20 bytes and a call of emit_packet_event both returned; both channels empty
C10_Witness ==
    \E c, d \in CPUS :
        /\ DOMAIN agent_config = {}
        /\ cpu[c].pc = "ret" /\ cpu[c].prog = "tracepoint_kfree_skb"
        /\ cpu[c].enabled = NULL /\ cpu[c].skb # NULL /\ cpu[c].skblen = 20
        /\ cpu[d].pc = "ret" /\ cpu[d].prog = "emit_packet_event"
        /\ cpu[d].enabled = NULL
        /\ drop_events = EmptyRing
        /\ packet_events = EmptyRing

\* the entries the TEID table holds
TeidTableSize == Cardinality(DOMAIN teid_stats) + teid_others

\* C11: the TEID table never holds more than 4096 entries, and when
\* update_teid_counter inserts a new TEID while it holds 4096, no entry is
\* created, every entry stays as it was, and the call returns
C11_TeidTableBounded ==
    /\ [](TeidTableSize <= TEID_STATS_MAX)
    /\ [][\A c \in CPUS :
             (/\ cpu[c].pc = "tc_update"
              /\ cpu'[c].pc # "tc_update"
              /\ cpu[c].key \notin DOMAIN teid_stats
              /\ TeidTableSize = TEID_STATS_MAX)
             => /\ teid_stats' = teid_stats
                /\ teid_others' = teid_others
                /\ cpu'[c].pc = "ret"]_vars

\* C11 witness: with 4096 entries in the table, one of them created by a call
\* for another TEID, a call for a TEID without entry has returned from the insert
C11_Witness ==
    \E c \in CPUS :
        /\ cpu[c].pc = "ret" /\ cpu[c].prog = "update_teid_counter"
        /\ cpu[c].path = "miss"
        /\ cpu[c].key \notin DOMAIN teid_stats
        /\ DOMAIN teid_stats # {}
        /\ TeidTableSize = TEID_STATS_MAX

\* the fields of the data model: every member of the structs but the padding
DropEventData == DropEventFields \ {"pad"}
PacketEventData == PacketEventFields \ {"pad"}

\* the consumer has read record i of the ring, or may read it next
Visible(rb, i) == i <= rb.cons \/ (i = rb.cons + 1 /\ Consumable(rb))

\* invocation rec.id has stored to every field in `fields` of rec
WrittenByProducer(rec, fields) ==
    \A f \in fields : rec.by[f] = rec.id /\ rec.data[f] # Uninit

\* C12 as stated: a record the consumer reads is submitted and every member of
\* it, the padding included, was stored by the invocation that reserved it
C12_EveryMemberWritten ==
    /\ \A i \in 1 .. Len(drop_events.recs) :
          Visible(drop_events, i)
          => /\ ~drop_events.recs[i].busy
             /\ WrittenByProducer(drop_events.recs[i], DropEventFields)
    /\ \A i \in 1 .. Len(packet_events.recs) :
          Visible(packet_events, i)
          => /\ ~packet_events.recs[i].busy
             /\ WrittenByProducer(packet_events.recs[i], PacketEventFields)

\* C12: a record the consumer reads is submitted, and every field of the data
\* model in it (every member but the two padding bytes, which no statement
\* stores to) was stored by the one invocation that reserved it; a record is
\* submitted only with all these stores done
C12_ReserveFillSubmit ==
    /\ \A i \in 1 .. Len(drop_events.recs) :
          /\ Visible(drop_events, i) => ~drop_events.recs[i].busy
          /\ ~drop_events.recs[i].busy
             => WrittenByProducer(drop_events.recs[i], DropEventData)
    /\ \A i \in 1 .. Len(packet_events.recs) :
          /\ Visible(packet_events, i) => ~packet_events.recs[i].busy
          /\ ~packet_events.recs[i].busy
             => WrittenByProducer(packet_events.recs[i], PacketEventData)

\* C12 witness: the consumer has read the DropEvent of one CPU while the record
\* another CPU reserved is filled but not submitted, and so not to be read
C12_Witness ==
    /\ Len(drop_events.recs) = 2
    /\ drop_events.cons = 1
    /\ ~drop_events.recs[1].busy
    /\ WrittenByProducer(drop_events.recs[1], DropEventData)
    /\ drop_events.recs[2].busy
    /\ drop_events.recs[2].cpu # drop_events.recs[1].cpu
    /\ drop_events.recs[2].data.pkt_len # Uninit
    /\ ~Consumable(drop_events)

\* C13: every drop program that has returned after the submit has put exactly
\* one record in the channel; the consumer takes one record at a time, each
\* once, leaves the records as they are, and takes a record only when every
\* record the same CPU committed before it has been taken
C13_PerCpuCommitOrder ==
    /\ [](\A c \in CPUS :
             (/\ cpu[c].pc = "ret" /\ cpu[c].prog = "tracepoint_kfree_skb"
              /\ cpu[c].path = "emitted")
             => Cardinality(RecordsOf(drop_events, cpu[c].id)) = 1)
    /\ [][drop_events'.cons # drop_events.cons
          => /\ drop_events'.cons = drop_events.cons + 1
             /\ drop_events'.recs = drop_events.recs
             /\ LET r == drop_events.recs[drop_events.cons + 1]
                IN  /\ ~r.busy
                    /\ \A j \in 1 .. Len(drop_events.recs) :
                          (/\ drop_events.recs[j].cpu = r.cpu
                           /\ drop_events.recs[j].id < r.id)
                          => j <= drop_events.cons]_vars

\* C13 witness: one CPU committed two DropEvents in two invocations, and the
\* consumer has taken both, the earlier one first
C13_Witness ==
    /\ Len(drop_events.recs) = 2
    /\ drop_events.cons = 2
    /\ drop_events.recs[1].cpu = drop_events.recs[2].cpu
    /\ drop_events.recs[1].id < drop_events.recs[2].id
    /\ ~drop_events.recs[1].busy
    /\ ~drop_events.recs[2].busy
    /\ \E c \in CPUS :
          /\ cpu[c].pc = "ret" /\ cpu[c].path = "emitted"
          /\ cpu[c].id = drop_events.recs[2].id

\* C14: no step of a program changes agent_config or teid_session_map: a step
\* that changes either leaves every CPU's program where it was (it is a step of
\* the loader or of the session collaborator)
C14_RegistriesReadOnly ==
    [][cpu' # cpu
       => (agent_config' = agent_config /\ teid_session_map' = teid_session_map)]_vars

\* C14 witness: after the loader set the drop flag and the collaborator created
\* a session, a drop program published an event and a kprobe counted a packet;
\* flag and session are as written
C14_Witness ==
    \E c, d \in CPUS :
        /\ cpu[c].pc = "ret" /\ cpu[c].prog = "tracepoint_kfree_skb"
        /\ cpu[c].path = "emitted"
        /\ cpu[d].pc = "ret" /\ cpu[d].prog = "kprobe_gtp5g_encap_recv"
        /\ cpu[d].path = "counted"
        /\ agent_config[KEY_DROP_TRACING] = 1
        /\ DOMAIN teid_session_map = SessionTeids

\* C15: once a TEID has an entry, the entry stays, its packets value never
\* decreases, and it is never set back to 1 after it has exceeded 1
C15_TeidPacketsNeverReset ==
    [][\A teid \in DOMAIN teid_stats :
          /\ teid \in DOMAIN teid_stats'
          /\ teid_stats'[teid].packets >= teid_stats[teid].packets
          /\ ~(teid_stats[teid].packets > 1 /\ teid_stats'[teid].packets = 1)]_vars

\* the sum of a field of the direction counter over the copies of CPUs 0 .. c
RECURSIVE SumCopies(_, _, _)
SumCopies(c, direction, field) ==
    IF c < 0 THEN 0
    ELSE traffic_stats[c][direction][field] + SumCopies(c - 1, direction, field)

\* no kprobe is under way
KprobesReturned == \A c \in CPUS : cpu[c].pc # "utc_update"

\* C16: once every kprobe has returned, for each direction the packets of all
\* per-CPU copies add up to the number of kprobes of that direction started
\* with a non-null packet, and the bytes to the sum of the lengths
C16_ShardsAddUp ==
    KprobesReturned
    => \A d \in {DIRECTION_UPLINK, DIRECTION_DOWNLINK} :
          /\ SumCopies(NCPU - 1, d, "packets") = kprobe_calls[d].n
          /\ SumCopies(NCPU - 1, d, "bytes") = kprobe_calls[d].bytes

\* C16 witness: two uplink kprobes, on two CPUs, for 19 and 20 bytes have
\* returned: each copy holds one packet, the sum is 2 packets and 39 bytes
C16_Witness ==
    /\ KprobesReturned
    /\ kprobe_calls[DIRECTION_UPLINK].n = 2
    /\ kprobe_calls[DIRECTION_UPLINK].bytes = 39
    /\ \E c, d \in CPUS :
          /\ c # d
          /\ traffic_stats[c][DIRECTION_UPLINK].packets = 1
          /\ traffic_stats[d][DIRECTION_UPLINK].packets = 1
    /\ SumCopies(NCPU - 1, DIRECTION_UPLINK, "packets") = 2
    /\ SumCopies(NCPU - 1, DIRECTION_UPLINK, "bytes") = 39

\* this step is a step of a kprobe on CPU c: its start or its counter update
KprobeStep(c) ==
    \/ Starts(c, "kprobe_gtp5g_encap_recv")
    \/ Starts(c, "kprobe_gtp5g_dev_xmit")
    \/ (cpu[c].pc = "utc_update" /\ cpu'[c] # cpu[c])

\* C17: a step of a kprobe on CPU c leaves the copies of every other CPU, the
\* other direction's slot of CPU c, the TEID table and both event channels as
\* they were; and a slot of the direction counters changes only in a step of a
\* kprobe of that direction on the CPU that owns it
C17_OnlyOwnSlot ==
    [][/\ \A c \in CPUS :
             KprobeStep(c)
             => /\ \A e \in CPUS \ {c} : traffic_stats'[e] = traffic_stats[e]
                /\ \A d \in 0 .. (TRAFFIC_STATS_MAX - 1) :
                      d # KprobeDirection(cpu'[c].prog)
                      => traffic_stats'[c][d] = traffic_stats[c][d]
                /\ teid_stats' = teid_stats
                /\ teid_others' = teid_others
                /\ drop_events' = drop_events
                /\ packet_events' = packet_events
       /\ \A e \in CPUS, d \in 0 .. (TRAFFIC_STATS_MAX - 1) :
             traffic_stats'[e][d] # traffic_stats[e][d]
             => /\ cpu[e].pc = "utc_update"
                /\ cpu'[e].pc = "ret"
                /\ KprobeDirection(cpu[e].prog) = d]_vars

\* C17 witness: a downlink kprobe counted a packet on its CPU while the drop
\* channel holds a record; the uplink slot of that CPU and both slots of every
\* other CPU are zero, the TEID table is empty, the record is in place
C17_Witness ==
    \E c \in CPUS :
        /\ cpu[c].pc = "ret" /\ cpu[c].prog = "kprobe_gtp5g_dev_xmit"
        /\ cpu[c].path = "counted"
        /\ traffic_stats[c][DIRECTION_DOWNLINK].packets = 1
        /\ traffic_stats[c][DIRECTION_UPLINK] = ZeroCounter
        /\ \A e \in CPUS \ {c} : traffic_stats[e] = NoStats
        /\ DOMAIN teid_stats = {}
        /\ Len(drop_events.recs) = 1
        /\ ~drop_events.recs[1].busy
        /\ packet_events = EmptyRing

\* C18: from one state to the next, on every CPU and for each direction, the
\* packets, bytes and timestamp of the direction counter do not decrease
C18_DirectionCountersMonotonic ==
    [][\A c \in CPUS, d \in 0 .. (TRAFFIC_STATS_MAX - 1) :
          /\ traffic_stats'[c][d].packets >= traffic_stats[c][d].packets
          /\ traffic_stats'[c][d].bytes >= traffic_stats[c][d].bytes
          /\ traffic_stats'[c][d].timestamp >= traffic_stats[c][d].timestamp]_vars

\* C18 witness: a CPU counted two uplink packets, the second at a later time
C18_Witness ==
    \E c \in CPUS :
        /\ traffic_stats[c][DIRECTION_UPLINK].packets = 2
        /\ traffic_stats[c][DIRECTION_UPLINK].bytes = 39
        /\ traffic_stats[c][DIRECTION_UPLINK].timestamp = 1
        /\ cpu[c].pc = "ret" /\ cpu[c].prog = "kprobe_gtp5g_encap_recv"
        /\ cpu[c].entry[DIRECTION_UPLINK].timestamp = 0

\* C19: the packets value stored for a TEID is at most the number of calls of
\* update_teid_counter started for that TEID, and the bytes value at most the
\* sum of their lengths
C19_NeverOvercount ==
    \A teid \in DOMAIN teid_stats :
        /\ teid_stats[teid].packets <= teid_calls[teid].n
        /\ teid_stats[teid].bytes <= teid_calls[teid].bytes

\* C20: the drop program goes by the value config key 1 holds when it starts,
\* whatever earlier invocations read: started while the key holds 0 it returns
\* in that very step and the drop-event channel stays as it was; started while
\* the key holds a non-zero value for a non-null packet of at least 20 bytes it
\* goes on to the reservation, which succeeds when the channel has room, and
\* once it has returned from there it has published exactly one DropEvent
C20_FlagReadAfresh ==
    /\ [][\A c \in CPUS :
             Starts(c, "tracepoint_kfree_skb")
             => /\ cpu'[c].enabled = agent_config[KEY_DROP_TRACING]
                /\ agent_config[KEY_DROP_TRACING] = 0
                   => (cpu'[c].pc = "ret" /\ drop_events' = drop_events)
                /\ (/\ agent_config[KEY_DROP_TRACING] # 0
                    /\ cpu'[c].skb # NULL
                    /\ cpu'[c].skblen >= 20)
                   => cpu'[c].pc = "ede_reserve"]_vars
    /\ [][\A c \in CPUS :
             (/\ cpu[c].pc = "ede_reserve" /\ cpu'[c].pc # "ede_reserve"
              /\ RingUsed(drop_events) < DropCap)
             => /\ cpu'[c].pc = "ede_populate"
                /\ Cardinality(RecordsOf(drop_events', cpu[c].id)) = 1]_vars
    /\ [](\A c \in CPUS :
             (/\ cpu[c].pc = "ret" /\ cpu[c].prog = "tracepoint_kfree_skb"
              /\ cpu[c].enabled # 0 /\ cpu[c].skb # NULL /\ cpu[c].skblen >= 20
              /\ cpu[c].path # "full")
             => \E i \in 1 .. Len(drop_events.recs) :
                   /\ RecordsOf(drop_events, cpu[c].id) = {i}
                   /\ ~drop_events.recs[i].busy)

\* C20 witness: the first invocation read the flag as 0 and returned without a
\* record; the loader then set the flag, and the second invocation, on the same
\* kind of packet, read 1 and published its DropEvent
C20_Witness ==
    \E c, d \in CPUS :
        /\ cpu[c].pc = "ret" /\ cpu[c].prog = "tracepoint_kfree_skb"
        /\ cpu[c].id = 1 /\ cpu[c].enabled = 0 /\ cpu[c].skblen = 20
        /\ RecordsOf(drop_events, 1) = {}
        /\ cpu[d].pc = "ret" /\ cpu[d].prog = "tracepoint_kfree_skb"
        /\ cpu[d].id = 2 /\ cpu[d].enabled = 1 /\ cpu[d].skblen = 20
        /\ cpu[d].path = "emitted"
        /\ agent_config[KEY_DROP_TRACING] = 1
        /\ \E i \in 1 .. Len(drop_events.recs) :
              RecordsOf(drop_events, 2) = {i} /\ ~drop_events.recs[i].busy

====
